---- MODULE Spec2Model ----
(***************************************************************************)
(* t2kbfnd: touchbar mode / backlight daemon (src/src/main.rs).            *)
(*                                                                         *)
(* Two threads of control share one datum, the RwLock<Instant> time_lock:  *)
(*   - the main task (keyboard loop, main.rs:172-198), which also owns the *)
(*     Touchbar (mode attribute) and fn_pressed;                           *)
(*   - the spawned backlight task (main.rs:148-171), which owns the        *)
(*     TbBacklight (brightness attribute) and failure_counter.             *)
(* The two sysfs attributes are modelled as files holding a text (a        *)
(* sequence of characters): a successful write replaces the content, a     *)
(* failed write leaves it as it was, and nothing else writes them.         *)
(* Time is the monotonic clock in milliseconds; it is an input of the      *)
(* environment and advances over the sample points Instants.               *)
(***************************************************************************)
EXTENDS Integers, Sequences, FiniteSets, TLC

VARIABLES
    mode_attr,           \* content of the touchbar "mode" attribute, or Absent
    brightness_attr,     \* content of the backlight "brightness" attribute, or Absent
    touchbar,            \* Touchbar {state, default_mode}
    touchbar_backlight,  \* TbBacklight {state}
    fn_pressed,          \* main's local fn_pressed
    failure_counter,     \* the backlight task's local failure_counter
    time_lock,           \* the Instant stored inside the RwLock
    lock,                \* the RwLock: "free", or "write" while main holds the write guard
    now,                 \* the monotonic clock (ms)
    event,               \* the event of the loop iteration in progress, or NoEvent
    main_pc,             \* position of main
    task_pc,             \* position of the backlight task
    set_mode_calls,      \* set_mode calls made by the iteration in progress
    set_brightness_calls,\* set_brightness calls made by the last tick iteration
    consecutive_failures,\* history: failed set_brightness calls since the last success
    tap_stage,           \* history: progress through Fn press, Esc press, Esc release, Fn release
    tap_default,         \* history: default_mode when that sequence began
    pointer_moved        \* environment: the pointer device produced an event at this instant

vars == <<mode_attr, brightness_attr, touchbar, touchbar_backlight,
          fn_pressed, failure_counter, time_lock, lock, now, event, main_pc,
          task_pc, set_mode_calls, set_brightness_calls, consecutive_failures,
          tap_stage, tap_default, pointer_moved>>

-----------------------------------------------------------------------------
(* Bounds and program constants *)

\* the clock is also sampled at the first MaxTicks tick periods
MaxTicks == 1

\* Duration::from_millis(500)
TickMillis == 500
\* inactive_time >= 60
OffSecs == 60
\* inactive_time >= 30
DimSecs == 30
\* failure_counter >= 3
GiveUp == 3
\* Duration::as_secs: whole seconds of a duration in milliseconds
MillisPerSec == 1000

\* a file of the environment: a text, or no readable file at that path
File(text) == [exists |-> TRUE, text |-> text]
Absent == [exists |-> FALSE, text |-> <<>>]

\* before construction, and for values that are out of scope
NoValue == "none"
NoEvent == [kind |-> "none", key |-> "none", value |-> 0]

\* whole seconds around which the clock is sampled
SampleSecs == {0, DimSecs, OffSecs, 10000}

\* the points of the monotonic clock the model visits
Instants ==
    {s * MillisPerSec : s \in SampleSecs} \cup {k * TickMillis : k \in 0..MaxTicks}

-----------------------------------------------------------------------------
(* Text: sequences of one-character strings *)

IsWhitespace(c) == c \in {" ", "\n", "\t", "\r"}

RECURSIVE TrimStart(_)
TrimStart(s) ==
    IF s = <<>> THEN s
    ELSE IF IsWhitespace(Head(s)) THEN TrimStart(Tail(s)) ELSE s

RECURSIVE TrimEnd(_)
TrimEnd(s) ==
    IF s = <<>> THEN s
    ELSE IF IsWhitespace(s[Len(s)]) THEN TrimEnd(SubSeq(s, 1, Len(s) - 1)) ELSE s

\* str::trim
Trim(s) == TrimEnd(TrimStart(s))

Digit(d) == <<"0", "1", "2", "3", "4", "5", "6", "7", "8", "9">>[d + 1]

\* format!("{}", n) for an unsigned integer
RECURSIVE FormatU32(_)
FormatU32(n) ==
    IF n < 10 THEN <<Digit(n)>>
    ELSE FormatU32(n \div 10) \o <<Digit(n % 10)>>

-----------------------------------------------------------------------------
(* enum TouchbarMode, enum TbBacklightMode *)

TouchbarMode == {"Esc", "Function", "Media"}

\* a bug: the discriminants of Function and Media exchanged
TouchbarModeAsU32_Swapped(mode) ==
    CASE mode = "Esc" -> 0
      [] mode = "Function" -> 2
      [] mode = "Media" -> 1

\* `mode as u32` for TouchbarMode
TouchbarModeAsU32(mode) ==
    CASE mode = "Esc" -> 0
      [] mode = "Function" -> 1
      [] mode = "Media" -> 2

TbBacklightMode == {"Off", "Dim", "Max"}

\* `mode as u32` for TbBacklightMode
TbBacklightModeAsU32(mode) ==
    CASE mode = "Off" -> 0
      [] mode = "Dim" -> 1
      [] mode = "Max" -> 2

\* the match of Touchbar::new; "Err" is the Err(anyhow!(..)) arm
ParseTouchbarMode(buf) ==
    LET t == Trim(buf) IN
    IF t = <<"0">> THEN "Esc"
    ELSE IF t = <<"1">> THEN "Function"
    ELSE IF t = <<"2">> THEN "Media"
    ELSE "Err"

\* a bug: unknown content taken as Off instead of the Err arm
ParseTbBacklightMode_DefaultsOff(buf) ==
    LET t == Trim(buf) IN
    IF t = <<"1">> THEN "Dim"
    ELSE IF t = <<"2">> THEN "Max"
    ELSE "Off"

\* the match of TbBacklight::new
ParseTbBacklightMode(buf) ==
    LET t == Trim(buf) IN
    IF t = <<"0">> THEN "Off"
    ELSE IF t = <<"1">> THEN "Dim"
    ELSE IF t = <<"2">> THEN "Max"
    ELSE "Err"

\* a bug: a third arm, "esc" => TouchbarMode::Esc
load_config_AcceptsEsc(file) ==
    IF ~file.exists THEN "Err"
    ELSE LET t == Trim(file.text) IN
         IF t = <<"m", "e", "d", "i", "a">> THEN "Media"
         ELSE IF t = <<"f", "u", "n", "c", "t", "i", "o", "n">> THEN "Function"
         ELSE IF t = <<"e", "s", "c">> THEN "Esc"
         ELSE "Err"

\* load_config: "Err" when the file cannot be read or holds anything else
load_config(file) ==
    IF ~file.exists THEN "Err"
    ELSE LET t == Trim(file.text) IN
         IF t = <<"m", "e", "d", "i", "a">> THEN "Media"
         ELSE IF t = <<"f", "u", "n", "c", "t", "i", "o", "n">> THEN "Function"
         ELSE "Err"

\* load_config().unwrap_or(TouchbarMode::Media)
DefaultModeOf(file) ==
    IF load_config(file) = "Err" THEN "Media" ELSE load_config(file)

-----------------------------------------------------------------------------
(* Inputs of the environment *)

\* contents /etc/t2kbfnd.txt may have
ConfigTexts ==
    { File(<<"m", "e", "d", "i", "a", "\n">>),
      File(<<"f", "u", "n", "c", "t", "i", "o", "n">>),
      File(<<"e", "s", "c">>),
      Absent }

\* contents the mode attribute may have at startup
ModeTexts ==
    { File(<<"0", "\n">>), File(<<"1", "\n">>), File(<<"2">>), File(<<"3", "\n">>), Absent }

\* contents the brightness attribute may have at startup
BrightnessTexts ==
    { File(<<"0", "\n">>), File(<<"1">>), File(<<"2", "\n">>), File(<<>>), Absent }

\* evdev InputEvent, as far as main inspects it: kind(), the key, value()
\* (value 0 = release, 1 = press, 2 = autorepeat)
KeyEvents ==
    [kind : {"Key"}, key : {"KEY_FN", "KEY_ESC", "KEY_A"}, value : {0, 1, 2}]

OtherEvents == { [kind |-> "Synchronization", key |-> "none", value |-> 0] }

InputEvents == KeyEvents \cup OtherEvents

KeyEvent(key, value) == [kind |-> "Key", key |-> key, value |-> value]

-----------------------------------------------------------------------------
(* Touchbar and TbBacklight *)

\* a bug: state = mode before the write, so that a failed write still changes it
set_mode_StateFirst(tb, attr, mode, written) ==
    [touchbar |-> [tb EXCEPT !.state = mode],
     attr |-> IF written THEN File(FormatU32(TouchbarModeAsU32(mode))) ELSE attr,
     ok |-> written]

\* Touchbar::set_mode: write_all(format!("{}", mode as u32)), then state = mode;
\* `written` tells whether write_all succeeded (an input of the environment)
set_mode(tb, attr, mode, written) ==
    IF written
    THEN [touchbar |-> [tb EXCEPT !.state = mode],
          attr |-> File(FormatU32(TouchbarModeAsU32(mode))),
          ok |-> TRUE]
    ELSE [touchbar |-> tb, attr |-> attr, ok |-> FALSE]

\* a bug: the attribute is written but self.state is not updated
set_brightness_StateKept(bl, attr, mode, written) ==
    IF written
    THEN [backlight |-> bl,
          attr |-> File(FormatU32(TbBacklightModeAsU32(mode))),
          issued |-> TRUE,
          ok |-> TRUE]
    ELSE [backlight |-> bl, attr |-> attr, issued |-> TRUE, ok |-> FALSE]

\* TbBacklight::set_brightness: the same, without looking at the current state
set_brightness(bl, attr, mode, written) ==
    IF written
    THEN [backlight |-> [bl EXCEPT !.state = mode],
          attr |-> File(FormatU32(TbBacklightModeAsU32(mode))),
          issued |-> TRUE,
          ok |-> TRUE]
    ELSE [backlight |-> bl, attr |-> attr, issued |-> TRUE, ok |-> FALSE]

-----------------------------------------------------------------------------
(* The keyboard loop's decisions *)

\* fn_pressed after a KEY_FN event: set in the `event.value() == 0` arm
FnPressedAfter(value) == value = 0

\* the argument of set_mode for a KEY_FN event
FnMode(value, default_mode) ==
    IF value = 0
    THEN IF default_mode = "Media" THEN "Function" ELSE "Media"
    ELSE default_mode

\* a bug: the error of set_mode dropped (`.ok();` instead of `?`)
AfterSetMode_Swallowed(ok) == "lock"

\* the `?` after set_mode: main goes on to time_lock.write(), or returns the error
AfterSetMode(ok) == IF ok THEN "lock" ELSE "exited"

\* a bug: the stored instant left as it was
Touched_Skipped(stored, clock) == stored

\* a bug: the instant taken once, before the loop, and stored on every event
Touched_StartTime(stored, clock) == 0

\* *event_time = Instant::now()
Touched(stored, clock) == clock

\* a bug: the write guard taken outside the loop and so kept while main waits
WriteGuardDropped_Kept(l) == "write"

\* the RwLock after `event_time` drops at the end of the loop body
WriteGuardDropped(l) == "free"

\* the RwLock after the temporary guard of `backlight_time_lock.read().await` drops
ReadGuardDropped(l) == "free"

\* a bug: Esc toggles the default whether or not fn_pressed is set
TogglesDefault_Unheld(ev, pressed) == ev.key = "KEY_ESC"

\* whether an event that is not a KEY_FN key event toggles default_mode
TogglesDefault(ev, pressed) == pressed /\ ev.key = "KEY_ESC"

\* default_mode after the toggle
ToggledDefault(default_mode) ==
    IF default_mode = "Media" THEN "Function" ELSE "Media"

-----------------------------------------------------------------------------
(* The backlight task's decisions *)

\* Duration::as_secs of a duration in milliseconds
AsSecs(millis) == millis \div MillisPerSec

\* Instant::elapsed().as_secs() of the stored instant
InactiveTime(stored, clock) == AsSecs(clock - stored)

\* a bug: `>` for `>=` in both comparisons
TickTargets_Strict(inactive_time) ==
    IF inactive_time > OffSecs THEN <<"Off">>
    ELSE IF inactive_time > DimSecs THEN <<"Dim">>
    ELSE <<"Max">>

\* the if / else if / else of the tick: the levels passed to set_brightness, in order
TickTargets(inactive_time) ==
    IF inactive_time >= OffSecs THEN <<"Off">>
    ELSE IF inactive_time >= DimSecs THEN <<"Dim">>
    ELSE <<"Max">>

\* .unwrap_or_else(|_| failure_counter += 1)
CounterAfter(counter, ok) == IF ok THEN counter ELSE counter + 1

\* a bug: `>` for `>=`
GivesUp_Late(counter) == counter > GiveUp

\* if failure_counter >= 3 { return; }
GivesUp(counter) == counter >= GiveUp

\* the calls of one tick, applied in order; st = the task's state, oks = write_all results
RECURSIVE RunTick(_, _, _)
RunTick(st, targets, oks) ==
    IF targets = <<>> THEN st
    ELSE LET r == set_brightness(st.backlight, st.attr, Head(targets), Head(oks))
         IN RunTick([backlight |-> r.backlight,
                     attr |-> r.attr,
                     failure_counter |-> CounterAfter(st.failure_counter, r.ok),
                     consecutive |-> IF r.ok THEN 0 ELSE st.consecutive + 1,
                     calls |-> Append(st.calls,
                                      [target |-> Head(targets),
                                       issued |-> r.issued,
                                       ok |-> r.ok])],
                    Tail(targets), Tail(oks))

-----------------------------------------------------------------------------
(* History of the Fn press, Esc press, Esc release, Fn release sequence *)

\* stage after the key event ev; events that are not key events leave it alone
TapStageAfter(stage, ev) ==
    IF ev.kind /= "Key" THEN stage
    ELSE IF ev = KeyEvent("KEY_FN", 1) THEN 1
    ELSE IF stage = 1 /\ ev = KeyEvent("KEY_ESC", 1) THEN 2
    ELSE IF stage = 2 /\ ev = KeyEvent("KEY_ESC", 0) THEN 3
    ELSE IF stage = 3 /\ ev = KeyEvent("KEY_FN", 0) THEN 4
    ELSE 0

\* default_mode before the sequence began: taken at the Fn press
TapDefaultAfter(stage, remembered, ev, default_mode) ==
    IF ev.kind /= "Key" THEN remembered
    ELSE IF ev = KeyEvent("KEY_FN", 1) THEN default_mode
    ELSE IF TapStageAfter(stage, ev) = 0 THEN NoValue
    ELSE remembered

-----------------------------------------------------------------------------
(* The state machine *)

Init ==
    /\ mode_attr \in ModeTexts
    /\ brightness_attr \in BrightnessTexts
    /\ touchbar = [state |-> NoValue, default_mode |-> NoValue]
    /\ touchbar_backlight = [state |-> NoValue]
    /\ fn_pressed = FALSE
    /\ failure_counter = 0
    /\ time_lock = 0
    /\ lock = "free"
    /\ now = 0
    /\ event = NoEvent
    /\ main_pc = "start"
    /\ task_pc = "unspawned"
    /\ set_mode_calls = <<>>
    /\ set_brightness_calls = <<>>
    /\ consecutive_failures = 0
    /\ tap_stage = 0
    /\ tap_default = NoValue
    /\ pointer_moved = FALSE

\* the process ends: main has returned, the runtime drops the backlight task
ProcessExit ==
    /\ main_pc' = "exited"
    /\ task_pc' = IF task_pc \in {"tick", "read"} THEN "aborted" ELSE task_pc

\* main up to the spawn of the backlight task; config = /etc/t2kbfnd.txt,
\* keyboard = get_keyboard_event_fd and into_event_stream succeeded
Startup(config, keyboard) ==
    /\ main_pc = "start"
    /\ LET state == IF mode_attr.exists THEN ParseTouchbarMode(mode_attr.text) ELSE "Err"
           level == IF brightness_attr.exists
                    THEN ParseTbBacklightMode(brightness_attr.text) ELSE "Err"
       IN IF keyboard /\ state /= "Err" /\ level /= "Err"
          THEN /\ touchbar' = [state |-> state, default_mode |-> DefaultModeOf(config)]
               /\ touchbar_backlight' = [state |-> level]
               /\ time_lock' = now
               /\ main_pc' = "wait"
               /\ task_pc' = "tick"
          ELSE /\ ProcessExit
               /\ UNCHANGED <<touchbar, touchbar_backlight, time_lock>>
    /\ UNCHANGED <<mode_attr, brightness_attr, fn_pressed, failure_counter, lock,
                   now, event, set_mode_calls, set_brightness_calls,
                   consecutive_failures, tap_stage, tap_default, pointer_moved>>

\* events.next_event().await? returned ev, and the body of the loop down to
\* time_lock.write(); written = whether set_mode's write_all succeeds
KeyboardEvent(ev, written) ==
    /\ main_pc = "wait"
    /\ event' = ev
    /\ tap_stage' = TapStageAfter(tap_stage, ev)
    /\ tap_default' = TapDefaultAfter(tap_stage, tap_default, ev, touchbar.default_mode)
    /\ IF ev.kind = "Key" /\ ev.key = "KEY_FN"
       THEN LET mode == FnMode(ev.value, touchbar.default_mode)
                r == set_mode(touchbar, mode_attr, mode, written)
            IN /\ fn_pressed' = FnPressedAfter(ev.value)
               /\ touchbar' = r.touchbar
               /\ mode_attr' = r.attr
               /\ set_mode_calls' = <<[mode |-> mode, ok |-> r.ok]>>
               /\ IF AfterSetMode(r.ok) = "exited"
                  THEN ProcessExit
                  ELSE main_pc' = AfterSetMode(r.ok) /\ UNCHANGED task_pc
       ELSE /\ written
            /\ touchbar' =
                  IF ev.kind = "Key" /\ TogglesDefault(ev, fn_pressed)
                  THEN [touchbar EXCEPT !.default_mode = ToggledDefault(@)]
                  ELSE touchbar
            /\ main_pc' = "lock"
            /\ UNCHANGED <<fn_pressed, mode_attr, set_mode_calls, task_pc>>
    /\ UNCHANGED <<brightness_attr, touchbar_backlight, failure_counter, time_lock,
                   lock, now, set_brightness_calls, consecutive_failures,
                   pointer_moved>>

\* events.next_event().await? returned an error
EventStreamError ==
    /\ main_pc = "wait"
    /\ ProcessExit
    /\ UNCHANGED <<mode_attr, brightness_attr, touchbar, touchbar_backlight,
                   fn_pressed, failure_counter, time_lock, lock, now, event,
                   set_mode_calls, set_brightness_calls, consecutive_failures,
                   tap_stage, tap_default, pointer_moved>>

\* time_lock.write().await completes
MainAcquire ==
    /\ main_pc = "lock"
    /\ lock = "free"
    /\ lock' = "write"
    /\ main_pc' = "store"
    /\ UNCHANGED <<mode_attr, brightness_attr, touchbar, touchbar_backlight,
                   fn_pressed, failure_counter, time_lock, now, event, task_pc,
                   set_mode_calls, set_brightness_calls, consecutive_failures,
                   tap_stage, tap_default, pointer_moved>>

\* a bug: the keyboard loop also raises the backlight on every event
MainStore_WakesBacklight ==
    /\ main_pc = "store"
    /\ time_lock' = Touched(time_lock, now)
    /\ lock' = WriteGuardDropped(lock)
    /\ main_pc' = "wait"
    /\ event' = NoEvent
    /\ set_mode_calls' = <<>>
    /\ touchbar_backlight' = [touchbar_backlight EXCEPT !.state = "Max"]
    /\ brightness_attr' = File(FormatU32(TbBacklightModeAsU32("Max")))
    /\ UNCHANGED <<mode_attr, touchbar, fn_pressed, failure_counter, now, task_pc,
                   set_brightness_calls, consecutive_failures, tap_stage, tap_default,
                   pointer_moved>>

\* *event_time = Instant::now(); the guard drops at the end of the iteration
MainStore ==
    /\ main_pc = "store"
    /\ time_lock' = Touched(time_lock, now)
    /\ lock' = WriteGuardDropped(lock)
    /\ main_pc' = "wait"
    /\ event' = NoEvent
    /\ set_mode_calls' = <<>>
    /\ UNCHANGED <<mode_attr, brightness_attr, touchbar, touchbar_backlight,
                   fn_pressed, failure_counter, now, task_pc, set_brightness_calls,
                   consecutive_failures, tap_stage, tap_default, pointer_moved>>

\* interval.tick().await completes
BacklightTick ==
    /\ task_pc = "tick"
    /\ task_pc' = "read"
    /\ set_brightness_calls' = <<>>
    /\ UNCHANGED <<mode_attr, brightness_attr, touchbar, touchbar_backlight,
                   fn_pressed, failure_counter, time_lock, lock, now, event, main_pc,
                   set_mode_calls, consecutive_failures, tap_stage, tap_default, pointer_moved>>

\* backlight_time_lock.read().await completes (the guard is a temporary of that
\* statement), then the rest of the iteration; oks = the write_all results
BacklightRun(oks) ==
    /\ task_pc = "read"
    /\ lock /= "write"
    /\ LET targets == TickTargets(InactiveTime(time_lock, now))
           st == RunTick([backlight |-> touchbar_backlight,
                          attr |-> brightness_attr,
                          failure_counter |-> failure_counter,
                          consecutive |-> consecutive_failures,
                          calls |-> <<>>],
                         targets, oks)
       IN /\ Len(oks) = Len(targets)
          /\ touchbar_backlight' = st.backlight
          /\ brightness_attr' = st.attr
          /\ failure_counter' = st.failure_counter
          /\ consecutive_failures' = st.consecutive
          /\ set_brightness_calls' = st.calls
          /\ task_pc' = IF GivesUp(st.failure_counter) THEN "done" ELSE "tick"
    /\ lock' = ReadGuardDropped(lock)
    /\ UNCHANGED <<mode_attr, touchbar, fn_pressed, time_lock, now,
                   event, main_pc, set_mode_calls, tap_stage, tap_default, pointer_moved>>

\* the monotonic clock advances
AdvanceTime(t) ==
    /\ t > now
    /\ now' = t
    /\ pointer_moved' = FALSE
    /\ UNCHANGED <<mode_attr, brightness_attr, touchbar, touchbar_backlight,
                   fn_pressed, failure_counter, time_lock, lock, event, main_pc,
                   task_pc, set_mode_calls, set_brightness_calls,
                   consecutive_failures, tap_stage, tap_default>>

\* the trackpad produces an event; main opens KEYBOARD_EVENT_PATH only, and no
\* task of the process reads any other device
PointerEvent ==
    /\ main_pc \notin {"start", "exited"}
    /\ ~pointer_moved
    /\ pointer_moved' = TRUE
    /\ UNCHANGED <<mode_attr, brightness_attr, touchbar, touchbar_backlight,
                   fn_pressed, failure_counter, time_lock, lock, now, event, main_pc,
                   task_pc, set_mode_calls, set_brightness_calls,
                   consecutive_failures, tap_stage, tap_default>>

\* write_all results of up to two calls
WriteResults == UNION {[1..n -> BOOLEAN] : n \in 1..2}

Next ==
    \/ \E config \in ConfigTexts, keyboard \in BOOLEAN : Startup(config, keyboard)
    \/ \E ev \in InputEvents, written \in BOOLEAN : KeyboardEvent(ev, written)
    \/ EventStreamError
    \/ MainAcquire
    \/ MainStore
    \/ BacklightTick
    \/ \E oks \in WriteResults : BacklightRun(oks)
    \/ \E t \in Instants : AdvanceTime(t)
    \/ PointerEvent

Spec == Init /\ [][Next]_vars

-----------------------------------------------------------------------------
(* The specification for the liveness properties: the same actions under the   *)
(* scheduling the runtime gives, for one startup and two kinds of key events.  *)

\* both attributes readable at startup: Media shown, backlight at Max
FairInit ==
    /\ Init
    /\ mode_attr = File(<<"2">>)
    /\ brightness_attr = File(<<"2", "\n">>)

\* a KEY_FN event (which calls set_mode) and an event of another key
FairEvents == { KeyEvent("KEY_FN", 0), KeyEvent("KEY_A", 1) }

FairNext ==
    \/ \E config \in ConfigTexts, keyboard \in BOOLEAN : Startup(config, keyboard)
    \/ \E ev \in FairEvents, written \in BOOLEAN : KeyboardEvent(ev, written)
    \/ EventStreamError
    \/ MainAcquire
    \/ MainStore
    \/ BacklightTick
    \/ \E oks \in WriteResults : BacklightRun(oks)
    \/ \E t \in Instants : AdvanceTime(t)

\* the runtime polls every task that is ready, the interval keeps ticking, and
\* tokio's RwLock is fair: a waiting reader or writer gets the lock once it is
\* free often enough. Nothing obliges the keyboard to produce events or time to pass.
FairSpec ==
    /\ FairInit
    /\ [][FairNext]_vars
    /\ WF_vars(BacklightTick)
    /\ SF_vars(\E oks \in WriteResults : BacklightRun(oks))
    /\ SF_vars(MainAcquire)
    /\ WF_vars(MainStore)

-----------------------------------------------------------------------------
(* Steps and states the properties speak of *)

\* main has handled a KEY_FN event of the given value in the iteration in progress
FnHandled(value) == event = KeyEvent("KEY_FN", value)

\* the step is one iteration of the backlight task (BacklightRun)
IsTickIteration == task_pc = "read" /\ task_pc' \in {"tick", "done"}

\* the step is main consuming an event (KeyboardEvent)
IsEventStep == main_pc = "wait" /\ event' /= NoEvent

\* the last set_mode call of the iteration in progress failed
SetModeFailed == set_mode_calls /= <<>> /\ ~set_mode_calls[Len(set_mode_calls)].ok

\* whole seconds between the stored instant and the clock
IdleSecs == (now - time_lock) \div 1000

\* the text of each mode's fixed integer
ModeText == [Esc |-> <<"0">>, Function |-> <<"1">>, Media |-> <<"2">>]

-----------------------------------------------------------------------------
(* C1..C10 *)

\* C1: an Fn press (value 1) calls set_mode with the mode that is not the default,
\* and an Fn release (value 0) calls set_mode with the default.
C1_FnPressTogglesAway ==
    /\ FnHandled(1) =>
          /\ Len(set_mode_calls) = 1
          /\ set_mode_calls[1].mode /= touchbar.default_mode
          /\ set_mode_calls[1].mode \in {"Function", "Media"}
    /\ FnHandled(0) =>
          /\ Len(set_mode_calls) = 1
          /\ set_mode_calls[1].mode = touchbar.default_mode

\* C2: after Fn press, Esc press, Esc release, Fn release, the default is the
\* opposite of the default before the sequence, and the mode written on that Fn
\* release is the new default.
C2_HoldFnTapEsc ==
    (tap_stage = 4 /\ ~SetModeFailed) =>
        /\ tap_default = "Media" => touchbar.default_mode = "Function"
        /\ tap_default = "Function" => touchbar.default_mode = "Media"
        /\ FnHandled(0) =>
              /\ Len(set_mode_calls) = 1
              /\ set_mode_calls[1].mode = touchbar.default_mode

\* C3: each tick makes exactly one set_brightness call, with Off for 60 or more
\* whole idle seconds, Dim for 30..59 and Max below 30; 0 and 29 give Max, 30 and 59
\* give Dim, 60 and 10000 give Off.
C3_IdlePolicy ==
    [][IsTickIteration =>
          /\ Len(set_brightness_calls') = 1
          /\ LET target == set_brightness_calls'[1].target
             IN /\ IdleSecs >= 60 => target = "Off"
                /\ (IdleSecs >= 30 /\ IdleSecs < 60) => target = "Dim"
                /\ IdleSecs < 30 => target = "Max"
                /\ IdleSecs \in {0, 29} => target = "Max"
                /\ IdleSecs \in {30, 59} => target = "Dim"
                /\ IdleSecs \in {60, 10000} => target = "Off"]_vars

\* C3 witness: a tick read 59 whole idle seconds (59.5 s) and selected Dim
C3_Witness ==
    /\ task_pc = "tick"
    /\ Len(set_brightness_calls) = 1
    /\ set_brightness_calls[1].target = "Dim"
    /\ now - time_lock = 59500

\* C4: set_brightness with the level the register already holds issues no write.
C4_NoRedundantWrite ==
    [][IsTickIteration =>
          \A i \in 1..Len(set_brightness_calls') :
              set_brightness_calls'[i].target = touchbar_backlight.state
                  => ~set_brightness_calls'[i].issued]_vars

\* C5: once three consecutive set_brightness calls have failed the task has ended,
\* an ended task changes nothing of the backlight, and main goes on: the give-up
\* step leaves main alone and main still takes every event.
C5_GiveUp ==
    /\ [](consecutive_failures >= 3 => task_pc = "done")
    /\ [](task_pc = "done" /\ main_pc = "wait" =>
             \A ev \in InputEvents : ENABLED KeyboardEvent(ev, TRUE))
    /\ [][/\ task_pc = "done" =>
                UNCHANGED <<task_pc, touchbar_backlight, brightness_attr,
                            failure_counter, set_brightness_calls>>
          /\ (task_pc /= "done" /\ task_pc' = "done") =>
                UNCHANGED <<main_pc, touchbar, mode_attr, fn_pressed, time_lock,
                            event, set_mode_calls>>]_vars

\* C5 witness: the task gave up at 60 s on a failed Off, and main has since
\* handled an Fn event and stored that instant
C5_Witness ==
    /\ task_pc = "done"
    /\ consecutive_failures = 3
    /\ set_brightness_calls[1].target = "Off"
    /\ main_pc = "wait"
    /\ time_lock = 60000
    /\ now = 60000
    /\ touchbar.state = "Function"
    /\ mode_attr = File(<<"1">>)

\* C6: every successful set_brightness resets the counter to 0, so the task ends
\* only when its three most recent calls failed.
C6_CounterIsConsecutive ==
    /\ (set_brightness_calls /= <<>> /\ set_brightness_calls[Len(set_brightness_calls)].ok)
          => failure_counter = 0
    /\ task_pc = "done" => consecutive_failures >= 3

\* C7: a failed set_mode ends the process, and nothing but the clock changes
\* after that: no event, no mode write, no touch, no backlight write.
C7_SetModeFatal ==
    /\ [](SetModeFailed => main_pc = "exited" /\ task_pc \notin {"tick", "read"})
    /\ [][main_pc = "exited" =>
             UNCHANGED <<mode_attr, brightness_attr, touchbar, touchbar_backlight,
                         fn_pressed, failure_counter, time_lock, lock, event, main_pc,
                         task_pc, set_mode_calls, set_brightness_calls>>]_vars

\* C7 witness: set_mode failed half a minute in, with the backlight task cut off
C7_Witness ==
    /\ SetModeFailed
    /\ main_pc = "exited"
    /\ task_pc = "aborted"
    /\ now >= 30000

\* C8: a set_mode whose write succeeds makes the in-memory state the target; one
\* whose write fails returns the error and leaves state and default as they were.
C8_SetModeAtomic ==
    [][(IsEventStep /\ set_mode_calls' /= <<>>) =>
          LET call == set_mode_calls'[1]
          IN /\ call.ok => /\ touchbar'.state = call.mode
                           /\ touchbar'.default_mode = touchbar.default_mode
             /\ ~call.ok => /\ touchbar' = touchbar
                            /\ mode_attr' = mode_attr
                            /\ main_pc' = "exited"]_vars

\* C8 witness: a failed set_mode whose target was not the current mode
C8_Witness ==
    /\ SetModeFailed
    /\ set_mode_calls[1].mode /= touchbar.state
    /\ touchbar.state \in TouchbarMode

\* C9: the in-memory state is the mode whose integer is the attribute's content,
\* and after a successful set_mode the content is exactly that integer's text.
C9_StateMatchesAttribute ==
    /\ touchbar.state /= NoValue =>
          /\ mode_attr.exists
          /\ touchbar.state \in TouchbarMode
          /\ Trim(mode_attr.text) = ModeText[touchbar.state]
    /\ (set_mode_calls /= <<>> /\ set_mode_calls[1].ok) =>
          mode_attr = File(ModeText[set_mode_calls[1].mode])

\* C9 witness: Function was written over an attribute that read "2"
C9_Witness ==
    /\ set_mode_calls /= <<>>
    /\ set_mode_calls[1].ok
    /\ set_mode_calls[1].mode = "Function"
    /\ mode_attr = File(<<"1">>)
    /\ touchbar.default_mode = "Media"

-----------------------------------------------------------------------------
(* C11..C20 *)

\* C11: the stored instant never decreases and is never ahead of the clock; a
\* touch that completes leaves it at the time of that touch, and a read that
\* follows it in the same instant sees no idle time (and selects Max).
C11_ClockNeverStale ==
    /\ [](time_lock <= now)
    /\ [][/\ time_lock' >= time_lock
          /\ (main_pc = "store" /\ main_pc' = "wait") => time_lock' = now
          /\ (IsTickIteration /\ main_pc = "wait" /\ event = NoEvent
                /\ time_lock = now /\ now > 0) =>
                set_brightness_calls'[1].target = "Max"]_vars

\* C11 witness: a touch completed at 60 s and the tick read after it selected Max
C11_Witness ==
    /\ main_pc = "wait"
    /\ time_lock = 60000
    /\ now = 60000
    /\ task_pc = "tick"
    /\ Len(set_brightness_calls) = 1
    /\ set_brightness_calls[1].target = "Max"

\* C12: a pointer monitor runs beside the keyboard monitor: a pointer event
\* touches the clock, so the stored instant is the instant of that event.
C12_PointerTouchesClock ==
    pointer_moved => time_lock = now

\* an attribute that is there, with a content that is none of "0", "1", "2"
Unparseable(file) ==
    file.exists /\ Trim(file.text) \notin { <<"0">>, <<"1">>, <<"2">> }

\* C13: with the mode or the brightness attribute unparseable at startup, main
\* ends with an error: no task is spawned, no event is taken, nothing is written.
C13_ParseFailureFatal ==
    /\ []((Unparseable(mode_attr) \/ Unparseable(brightness_attr)) =>
             /\ main_pc \in {"start", "exited"}
             /\ task_pc = "unspawned"
             /\ event = NoEvent
             /\ set_mode_calls = <<>>
             /\ set_brightness_calls = <<>>)
    /\ [][(Unparseable(mode_attr) \/ Unparseable(brightness_attr)) =>
             /\ UNCHANGED <<mode_attr, brightness_attr, time_lock>>
             /\ main_pc' \in {main_pc, "exited"}]_vars

\* C13 witness: the mode attribute read "2", the brightness attribute was empty
C13_Witness ==
    /\ main_pc = "exited"
    /\ task_pc = "unspawned"
    /\ mode_attr = File(<<"2">>)
    /\ brightness_attr = File(<<>>)

\* C14: an Escape event changes default_mode only when it is a press (value 1)
\* taken while fn_pressed holds; a release or repeat, or any Escape event without
\* fn_pressed, leaves it alone; and no Escape event writes the mode attribute.
C14_OnlyEscPressToggles ==
    [][(IsEventStep /\ event'.kind = "Key" /\ event'.key = "KEY_ESC") =>
          /\ ~(fn_pressed /\ event'.value = 1) =>
                touchbar'.default_mode = touchbar.default_mode
          /\ set_mode_calls' = <<>>
          /\ mode_attr' = mode_attr]_vars

\* C15: a KEY_FN event of value 2 (autorepeat) calls set_mode not at all and
\* leaves the current mode, the default mode and fn_pressed as they were.
C15_FnRepeatIgnored ==
    [][(IsEventStep /\ event' = KeyEvent("KEY_FN", 2)) =>
          /\ set_mode_calls' = <<>>
          /\ UNCHANGED <<touchbar, mode_attr, fn_pressed>>]_vars

\* C16: no lock is held at a suspension point (main waiting for an event holds no
\* write guard, the task waiting for a tick holds no read guard), so a read that
\* waits for the lock completes, events or not, and so does a touch.
C16_NoLockAcrossAwait ==
    /\ [](main_pc = "wait" => lock = "free")
    /\ [](task_pc = "tick" => lock /= "read")
    /\ (task_pc = "read") ~> (task_pc /= "read")
    /\ (main_pc = "lock") ~> (main_pc = "wait")

\* C16 witness: the task waits for the read lock while main holds the write guard
C16_Witness ==
    /\ task_pc = "read"
    /\ lock = "write"
    /\ main_pc = "store"

\* the step is a step of the backlight task alone
IsTaskStep ==
    /\ task_pc \in {"tick", "read"}
    /\ task_pc' \in {"tick", "read", "done"}
    /\ task_pc' /= task_pc

\* the step is a step of the keyboard loop
IsMainStep == main_pc \in {"wait", "lock", "store"} /\ main_pc' /= main_pc

\* C17: a step of the backlight task leaves the mode register, the default mode,
\* fn_pressed and the stored instant alone; a step of the keyboard loop leaves the
\* backlight register and the failure counter alone.
C17_RegisterOwnership ==
    [][/\ IsTaskStep =>
             UNCHANGED <<touchbar, mode_attr, fn_pressed, time_lock, set_mode_calls>>
       /\ IsMainStep =>
             UNCHANGED <<touchbar_backlight, brightness_attr, failure_counter,
                         set_brightness_calls>>]_vars

\* C17 witness: the loop has written Function, the task has written Off, both go on
C17_Witness ==
    /\ main_pc = "wait"
    /\ task_pc = "tick"
    /\ mode_attr = File(<<"1">>)
    /\ brightness_attr = File(<<"0">>)
    /\ time_lock > 0

\* C18: once constructed, default_mode is Function or Media; every mode passed to
\* set_mode is Function or Media; and state is Esc only as the value read at
\* startup: no step makes it Esc afterwards, and a successful set_mode ends it.
C18_EscOnlyFromHardware ==
    /\ [](touchbar.default_mode \in {NoValue, "Function", "Media"})
    /\ [](main_pc \notin {"start", "exited"} =>
             touchbar.default_mode \in {"Function", "Media"})
    /\ [](\A i \in 1..Len(set_mode_calls) :
             /\ set_mode_calls[i].mode \in {"Function", "Media"}
             /\ set_mode_calls[i].ok => touchbar.state /= "Esc")
    /\ [][touchbar'.state = "Esc" =>
             \/ touchbar.state = "Esc"
             \/ main_pc = "start" /\ Trim(mode_attr.text) = <<"0">>]_vars

\* C18 witness: the attribute read "0" at startup and a set_mode has since failed
C18_Witness ==
    /\ touchbar.state = "Esc"
    /\ touchbar.default_mode = "Function"
    /\ SetModeFailed
    /\ set_mode_calls[1].mode = "Media"

\* the step is main consuming an Fn event
IsFnStep == IsEventStep /\ event'.kind = "Key" /\ event'.key = "KEY_FN"

ControllerAlive == task_pc \in {"tick", "read"}

\* the level of the policy for the idle time of the current state
PolicyLevel ==
    IF IdleSecs >= OffSecs THEN "Off" ELSE IF IdleSecs >= DimSecs THEN "Dim" ELSE "Max"

\* the step is a tick whose write succeeded
IsGoodTick == IsTickIteration /\ set_brightness_calls'[1].ok

\* C20: while the task is alive, 60 idle seconds or more lead to level Off unless
\* an event or the end of the task comes first; a tick whose write succeeds sets
\* the level of the policy (Dim at 30..59 idle seconds) in memory and in the
\* attribute; the level leaves Off only at a tick after a touch; and after a touch
\* the level becomes Max unless 30 idle seconds or the end of the task come first.
C20_BacklightTracksActivity ==
    /\ (ControllerAlive /\ IdleSecs >= OffSecs)
          ~> (touchbar_backlight.state = "Off" \/ IdleSecs < OffSecs \/ ~ControllerAlive)
    /\ (ControllerAlive /\ time_lock = now)
          ~> (touchbar_backlight.state = "Max" \/ IdleSecs >= DimSecs \/ ~ControllerAlive)
    /\ [][IsGoodTick =>
             /\ touchbar_backlight'.state = PolicyLevel
             /\ brightness_attr' = File(FormatU32(TbBacklightModeAsU32(PolicyLevel)))]_vars
    /\ [][(touchbar_backlight.state = "Off" /\ touchbar_backlight'.state /= "Off") =>
             IsGoodTick /\ IdleSecs < OffSecs]_vars

\* C20 witness: an event touched the clock, 60 seconds or more passed without
\* another, and a tick has set Off
C20_Witness ==
    /\ task_pc = "tick"
    /\ time_lock > 0
    /\ IdleSecs >= OffSecs
    /\ touchbar_backlight.state = "Off"
    /\ brightness_attr = File(<<"0">>)
    /\ set_brightness_calls = <<[target |-> "Off", issued |-> TRUE, ok |-> TRUE]>>

====
